---- MODULE Spec2Model ----
(***************************************************************************)
(* The service worker of the AWA Calculator PWA (src/sw.js): its cache     *)
(* storage, the install / activate / fetch / periodicsync / message        *)
(* handlers and the background operations they leave in flight.            *)
(***************************************************************************)
EXTENDS Integers, Sequences, FiniteSets, TLC

(***************************************************************************)
(* Bounds of the model.                                                    *)
(***************************************************************************)
\* partitions left in cache storage by earlier deployments
MaxOld == 2
\* background operations (cache.put chains, refresh fetches) in flight at once
MaxPending == 1
\* how many runs in a row of the same handler are counted
MaxStreak == 2

(***************************************************************************)
(* Names and constants of the script.                                      *)
(***************************************************************************)
STATIC_CACHE == "static-cache-v1"

DYNAMIC_CACHE == "dynamic-cache-v1"

\* names of partitions of earlier deployments, in their order of creation
OldCacheNames == <<"old-cache-v0", "awa-calculator-v1.2", "old-cache-v00", "old-cache-v000">>

OldNames == {OldCacheNames[i] : i \in 1..MaxOld}

AllNames == {STATIC_CACHE, DYNAMIC_CACHE} \cup OldNames

cacheWhitelistStaticOnly == {STATIC_CACHE}

cacheWhitelistDynamicOnly == {DYNAMIC_CACHE}

cacheWhitelist == {STATIC_CACHE, DYNAMIC_CACHE}

(***************************************************************************)
(* URLs are sequences of tokens: the scheme, then the pieces of host and   *)
(* path, the file extension last when there is one.                        *)
(***************************************************************************)
RootUrl == <<"https://", "/">>

IndexUrl == <<"https://", "/index", ".html">>

ManifestUrl == <<"https://", "/manifest", ".json">>

Icon192Url == <<"https://", "/icon-192x192", ".png">>

Icon512Url == <<"https://", "/icon-512x512", ".png">>

LogoUrl == <<"https://", "/logo", ".png">>

StyleUrl == <<"https://", "/app", ".css">>

CalculationDataUrl == <<"https://", "/api/calculation-data">>

TrackingPixelUrl == <<"https://", "analytics", "/pixel", ".png">>

ExtensionScriptUrl == <<"chrome-extension://", "/content", ".js">>

STATIC_ASSETS == {RootUrl, IndexUrl, ManifestUrl, Icon192Url, Icon512Url, LogoUrl}

\* the URLs the intercepted requests are drawn from
RequestUrls == {IndexUrl, LogoUrl, StyleUrl, CalculationDataUrl, TrackingPixelUrl, ExtensionScriptUrl}

Keys == STATIC_ASSETS \cup RequestUrls

Methods == {"GET", "POST"}

Modes == {"navigate", "no-cors"}

Request(method, url, mode) == [method |-> method, url |-> url, mode |-> mode]

\* the intercepted requests: one or more of every shape the handler tells apart
Requests ==
  {Request("GET", IndexUrl, "navigate"),
   Request("GET", LogoUrl, "navigate"), Request("GET", LogoUrl, "no-cors"),
   Request("GET", StyleUrl, "navigate"), Request("GET", StyleUrl, "no-cors"),
   Request("GET", CalculationDataUrl, "no-cors"),
   Request("GET", TrackingPixelUrl, "no-cors"), Request("GET", TrackingPixelUrl, "navigate"),
   Request("GET", ExtensionScriptUrl, "no-cors"),
   Request("POST", CalculationDataUrl, "no-cors"), Request("POST", LogoUrl, "navigate")}

NoRequest == [method |-> "", url |-> <<>>, mode |-> ""]

(***************************************************************************)
(* String operations of the script, on token sequences.                    *)
(***************************************************************************)
StartsWith(url, token) == Len(url) > 0 /\ url[1] = token

Includes(url, token) == \E i \in 1..Len(url) : url[i] = token

EndsWithOneOf(url, tokens) == Len(url) > 0 /\ url[Len(url)] \in tokens

StaticAssetExtensions == {".css", ".js", ".png", ".jpg", ".jpeg", ".gif", ".ico", ".svg", ".woff", ".woff2", ".ttf", ".eot"}

ImageExtensions == {".png", ".jpg", ".jpeg", ".gif", ".ico", ".svg"}

IsStaticAssetUrl(url) == EndsWithOneOf(url, StaticAssetExtensions)

IsImageUrlNoPng(url) == EndsWithOneOf(url, ImageExtensions \ {".png"})

IsImageUrl(url) == EndsWithOneOf(url, ImageExtensions)

(***************************************************************************)
(* Responses.                                                              *)
(***************************************************************************)
Bodies == {"A", "B"}

NetResponse(url, body, status) ==
  [src |-> "network", url |-> url, body |-> body, status |-> status, ctype |-> "server"]

PlaceholderImage ==
  [src |-> "generated", url |-> <<>>, body |-> "<svg/>", status |-> 200, ctype |-> "image/svg+xml"]

Payloads == {"p1", "p2"}

JSONstringify(payload) == IF payload = "p1" THEN "\"p1\"" ELSE "\"p2\""

DataResponse(payload) ==
  [src |-> "message", url |-> <<>>, body |-> JSONstringify(payload), status |-> 200, ctype |-> "text/plain"]

\* what a lookup that finds nothing resolves to (undefined)
NoEntry == [src |-> "undefined", url |-> <<>>, body |-> "", status |-> 0, ctype |-> ""]

\* the handler returned without calling respondWith
NoResponse == [src |-> "pass-through", url |-> <<>>, body |-> "", status |-> 0, ctype |-> ""]

\* the promise given to respondWith was rejected
Rejected == [src |-> "rejected", url |-> <<>>, body |-> "", status |-> 0, ctype |-> ""]

(***************************************************************************)
(* What a network fetch can do: fail, or answer 200 with one of the        *)
(* deployed texts, or answer 404.  The stylesheet stands for the assets    *)
(* that are requested only while their server cannot be reached.           *)
(***************************************************************************)
NetFail == [ok |-> FALSE, body |-> "", status |-> 0]

NetOutcomes ==
  {NetFail} \cup {[ok |-> TRUE, body |-> b, status |-> 200] : b \in Bodies}
            \cup {[ok |-> TRUE, body |-> "Not Found", status |-> 404]}

NetOutcomesFor(url) == IF url = StyleUrl THEN {NetFail} ELSE NetOutcomes

Message(hasData, type, payload) == [hasData |-> hasData, type |-> type, payload |-> payload]

Messages ==
  {Message(TRUE, "CACHE_DATA", p) : p \in Payloads}
    \cup {Message(TRUE, "SKIP_WAITING", "p1"), Message(TRUE, "PING", "p1"), Message(FALSE, "", "p1")}

VARIABLES cacheNames, entries, pending, sweepPc, sweepKeys, sweepLeft, activated, last

vars == <<cacheNames, entries, pending, sweepPc, sweepKeys, sweepLeft, activated, last>>

Range(s) == {s[i] : i \in 1..Len(s)}

EmptyPartition == [k \in Keys |-> NoEntry]

(***************************************************************************)
(* Cache storage.                                                          *)
(***************************************************************************)
\* caches.open(name): the names after opening, the partition created last
Open(names, name) == IF name \in Range(names) THEN names ELSE Append(names, name)

\* caches.match(key): the first partition, in order of creation, that holds key
Match(names, ents, key) ==
  LET hits == {i \in 1..Len(names) : ents[names[i]][key] # NoEntry}
  IN  IF hits = {} THEN NoEntry
      ELSE ents[names[CHOOSE i \in hits : \A j \in hits : i <= j]][key]

CacheMatchAnyPartition(ents, name, key) == Match(cacheNames, ents, key)

\* cache.match(key) on one partition
CacheMatch(ents, name, key) == ents[name][key]

\* caches.delete(name)
Delete(names, name) == SelectSeq(names, LAMBDA n : n # name)

Installed == STATIC_CACHE \in Range(cacheNames)

(***************************************************************************)
(* The outcome of the handler that has just settled, until the host takes  *)
(* it: which handler it was, its request, the branch taken, what the       *)
(* network did ("none" when no fetch was issued, "background" for a fetch  *)
(* nobody waits for), whether the cache was consulted, whether respondWith *)
(* was called and with what, the notifications shown, and the runs in a    *)
(* row of that handler with that outcome.                                  *)
(***************************************************************************)
Outcome(op, req, branch, net, cacheOps, responded, result, shown) ==
  [op |-> op, req |-> req, branch |-> branch, net |-> net, cacheOps |-> cacheOps,
   responded |-> responded, result |-> result, shown |-> shown, row |-> 1]

Plain(op) == Outcome(op, NoRequest, "", "none", FALSE, FALSE, NoResponse, 0)

\* no handler outcome is waiting to be taken
Idle == Plain("idle")

(***************************************************************************)
(* An activation may be followed at once by the next activation, and an    *)
(* update check by the next update check, before the host has taken the    *)
(* outcome: the outcome then counts the runs in a row, up to MaxStreak.    *)
(***************************************************************************)
InRow(o) ==
  IF [last EXCEPT !.row = 1] = o THEN [o EXCEPT !.row = last.row + 1] ELSE o

ReadyFor(op) == last = Idle \/ (last.op = op /\ last.row < MaxStreak)

NetOf(o) == IF o.ok THEN "ok" ELSE "fail"

PutOp(cache, key, resp) == [kind |-> "put", cache |-> cache, key |-> key, resp |-> resp]

RefreshOp(key) == [kind |-> "refresh", cache |-> "", key |-> key, resp |-> NoEntry]

\* a fire-and-forget operation is started
Spawn(op) ==
  /\ op \in pending \/ Cardinality(pending) < MaxPending
  /\ pending' = pending \cup {op}

Init ==
  /\ \E k \in 0..MaxOld : cacheNames = SubSeq(OldCacheNames, 1, k)
  /\ entries = [n \in AllNames |->
                  IF n \in Range(cacheNames)
                  THEN [EmptyPartition EXCEPT ![IndexUrl] = NetResponse(IndexUrl, "A", 200)]
                  ELSE EmptyPartition]
  /\ pending = {}
  /\ sweepPc = "idle"
  /\ sweepKeys = <<>>
  /\ sweepLeft = {}
  /\ activated = FALSE
  /\ last = Idle


(***************************************************************************)
(* The host takes the settled outcome (the response of respondWith, the    *)
(* promise of waitUntil) before it dispatches anything else.               *)
(***************************************************************************)
TakeOutcome ==
  /\ last # Idle
  /\ last' = Idle
  /\ UNCHANGED <<cacheNames, entries, pending, sweepPc, sweepKeys, sweepLeft, activated>>

(***************************************************************************)
(* install: open the static partition and add every static asset to it.    *)
(* addAll stores nothing unless every fetch answers with an ok status; the *)
(* rejection is caught and logged.  One deployment answers all the         *)
(* requests of one addAll.                                                 *)
(***************************************************************************)
Install(o) ==
  /\ last = Idle
  /\ cacheNames' = Open(cacheNames, STATIC_CACHE)
  /\ entries' = IF o.ok /\ o.status = 200
                THEN [entries EXCEPT ![STATIC_CACHE] =
                        [k \in Keys |-> IF k \in STATIC_ASSETS
                                        THEN NetResponse(k, o.body, o.status)
                                        ELSE entries[STATIC_CACHE][k]]]
                ELSE entries
  /\ last' = Outcome("install", NoRequest, "", NetOf(o), TRUE, FALSE, NoResponse, 0)
  /\ UNCHANGED <<pending, sweepPc, sweepKeys, sweepLeft, activated>>

(***************************************************************************)
(* activate: caches.keys(), then one caches.delete per name that is not on *)
(* the whitelist, all awaited together, then clients.claim().              *)
(***************************************************************************)
SweepTargetsFirstOnly(names) ==
  LET hits == {i \in 1..Len(names) : names[i] \notin cacheWhitelist}
  IN  IF hits = {} THEN {} ELSE {names[CHOOSE i \in hits : \A j \in hits : i <= j]}

SweepTargets(names) == {n \in Range(names) : n \notin cacheWhitelist}

ActivateKeys ==
  /\ ReadyFor("activate")
  /\ Installed
  /\ sweepPc = "idle"
  /\ sweepPc' = "deleting"
  /\ sweepKeys' = cacheNames
  /\ sweepLeft' = SweepTargets(cacheNames)
  /\ UNCHANGED <<cacheNames, entries, pending, activated, last>>

ActivateDelete(n) ==
  /\ last = Idle \/ last.op = "activate"
  /\ sweepPc = "deleting"
  /\ n \in sweepLeft
  /\ cacheNames' = Delete(cacheNames, n)
  /\ entries' = [entries EXCEPT ![n] = EmptyPartition]
  /\ sweepLeft' = sweepLeft \ {n}
  /\ UNCHANGED <<pending, sweepPc, sweepKeys, activated, last>>

ActivateClaim ==
  /\ last = Idle \/ last.op = "activate"
  /\ sweepPc = "deleting"
  /\ sweepLeft = {}
  /\ sweepPc' = "idle"
  /\ sweepKeys' = <<>>
  /\ activated' = TRUE
  /\ last' = InRow(Plain("activate"))
  /\ UNCHANGED <<cacheNames, entries, pending, sweepLeft>>

(***************************************************************************)
(* fetch: the chain of early returns, then one of three strategies.        *)
(***************************************************************************)
ClassifyNoMethodCheck(r) ==
  IF StartsWith(r.url, "chrome-extension://") THEN "Skip"
  ELSE IF Includes(r.url, "analytics") \/ Includes(r.url, "telemetry") THEN "Skip"
  ELSE IF r.mode = "navigate" THEN "Navigate"
  ELSE IF IsStaticAssetUrl(r.url) THEN "StaticAsset"
  ELSE "ApiData"

ClassifyAssetFirst(r) ==
  IF r.method # "GET" THEN "Skip"
  ELSE IF StartsWith(r.url, "chrome-extension://") THEN "Skip"
  ELSE IF Includes(r.url, "analytics") \/ Includes(r.url, "telemetry") THEN "Skip"
  ELSE IF IsStaticAssetUrl(r.url) THEN "StaticAsset"
  ELSE IF r.mode = "navigate" THEN "Navigate"
  ELSE "ApiData"

Classify(r) ==
  IF r.method # "GET" THEN "Skip"
  ELSE IF StartsWith(r.url, "chrome-extension://") THEN "Skip"
  ELSE IF Includes(r.url, "analytics") \/ Includes(r.url, "telemetry") THEN "Skip"
  ELSE IF r.mode = "navigate" THEN "Navigate"
  ELSE IF IsStaticAssetUrl(r.url) THEN "StaticAsset"
  ELSE "ApiData"

\* the partition the strategies store into
StrategyCacheStatic == STATIC_CACHE

StrategyCache == DYNAMIC_CACHE

Skip(r) ==
  /\ last' = Outcome("fetch", r, "Skip", "none", FALSE, FALSE, NoResponse, 0)
  /\ UNCHANGED pending

NavigateStrategyStoring200Only(r) ==
  \E o \in NetOutcomesFor(r.url) :
    IF o.ok
    THEN LET response == NetResponse(r.url, o.body, o.status)
         IN  /\ IF response.status = 200
                THEN Spawn(PutOp(StrategyCache, r.url, response))
                ELSE UNCHANGED pending
             /\ last' = Outcome("fetch", r, "Navigate", "ok", FALSE, TRUE, response, 0)
    ELSE LET cachedResponse == Match(cacheNames, entries, r.url)
             result == IF cachedResponse # NoEntry THEN cachedResponse
                       ELSE Match(cacheNames, entries, IndexUrl)
         IN  /\ last' = Outcome("fetch", r, "Navigate", "fail", TRUE, TRUE, result, 0)
             /\ UNCHANGED pending

NavigateStrategy(r) ==
  \E o \in NetOutcomesFor(r.url) :
    IF o.ok
    THEN LET response == NetResponse(r.url, o.body, o.status)
         IN  /\ Spawn(PutOp(StrategyCache, r.url, response))
             /\ last' = Outcome("fetch", r, "Navigate", "ok", FALSE, TRUE, response, 0)
    ELSE LET cachedResponse == Match(cacheNames, entries, r.url)
             result == IF cachedResponse # NoEntry THEN cachedResponse
                       ELSE Match(cacheNames, entries, IndexUrl)
         IN  /\ last' = Outcome("fetch", r, "Navigate", "fail", TRUE, TRUE, result, 0)
             /\ UNCHANGED pending

StaticAssetStrategyStoringPlaceholder(r) ==
  LET cachedResponse == Match(cacheNames, entries, r.url)
  IN  IF cachedResponse # NoEntry
      THEN /\ Spawn(RefreshOp(r.url))
           /\ last' = Outcome("fetch", r, "StaticAsset", "background", TRUE, TRUE, cachedResponse, 0)
      ELSE \E o \in NetOutcomesFor(r.url) :
             IF o.ok
             THEN LET response == NetResponse(r.url, o.body, o.status)
                  IN  /\ Spawn(PutOp(StrategyCache, r.url, response))
                      /\ last' = Outcome("fetch", r, "StaticAsset", "ok", TRUE, TRUE, response, 0)
             ELSE /\ last' = Outcome("fetch", r, "StaticAsset", "fail", TRUE, TRUE,
                                     IF IsImageUrl(r.url) THEN PlaceholderImage ELSE Rejected, 0)
                  /\ IF IsImageUrl(r.url)
                     THEN Spawn(PutOp(StrategyCache, r.url, PlaceholderImage))
                     ELSE UNCHANGED pending

StaticAssetStrategyAwaitingRefresh(r) ==
  LET cachedResponse == Match(cacheNames, entries, r.url)
  IN  \E o \in NetOutcomesFor(r.url) :
        IF o.ok
        THEN LET response == NetResponse(r.url, o.body, o.status)
             IN  /\ Spawn(PutOp(StrategyCache, r.url, response))
                 /\ last' = Outcome("fetch", r, "StaticAsset",
                                    IF cachedResponse # NoEntry THEN "background" ELSE "ok",
                                    TRUE, TRUE, response, 0)
        ELSE /\ last' = Outcome("fetch", r, "StaticAsset",
                                IF cachedResponse # NoEntry THEN "background" ELSE "fail",
                                TRUE, TRUE,
                                IF cachedResponse # NoEntry THEN cachedResponse
                                ELSE IF IsImageUrl(r.url) THEN PlaceholderImage ELSE Rejected, 0)
             /\ UNCHANGED pending

StaticAssetStrategy(r) ==
  LET cachedResponse == Match(cacheNames, entries, r.url)
  IN  IF cachedResponse # NoEntry
      THEN /\ Spawn(RefreshOp(r.url))
           /\ last' = Outcome("fetch", r, "StaticAsset", "background", TRUE, TRUE, cachedResponse, 0)
      ELSE \E o \in NetOutcomesFor(r.url) :
             IF o.ok
             THEN LET response == NetResponse(r.url, o.body, o.status)
                  IN  /\ Spawn(PutOp(StrategyCache, r.url, response))
                      /\ last' = Outcome("fetch", r, "StaticAsset", "ok", TRUE, TRUE, response, 0)
             ELSE /\ last' = Outcome("fetch", r, "StaticAsset", "fail", TRUE, TRUE,
                                     IF IsImageUrl(r.url) THEN PlaceholderImage ELSE Rejected, 0)
                  /\ UNCHANGED pending

ApiDataStrategyStoreAll(r) ==
  \E o \in NetOutcomesFor(r.url) :
    IF o.ok
    THEN LET response == NetResponse(r.url, o.body, o.status)
         IN  /\ Spawn(PutOp(StrategyCache, r.url, response))
             /\ last' = Outcome("fetch", r, "ApiData", "ok", FALSE, TRUE, response, 0)
    ELSE /\ last' = Outcome("fetch", r, "ApiData", "fail", TRUE, TRUE,
                            Match(cacheNames, entries, r.url), 0)
         /\ UNCHANGED pending

ApiDataStrategy(r) ==
  \E o \in NetOutcomesFor(r.url) :
    IF o.ok
    THEN LET response == NetResponse(r.url, o.body, o.status)
         IN  /\ IF response.status = 200
                THEN Spawn(PutOp(StrategyCache, r.url, response))
                ELSE UNCHANGED pending
             /\ last' = Outcome("fetch", r, "ApiData", "ok", FALSE, TRUE, response, 0)
    ELSE /\ last' = Outcome("fetch", r, "ApiData", "fail", TRUE, TRUE,
                            Match(cacheNames, entries, r.url), 0)
         /\ UNCHANGED pending

FetchEvent(r) ==
  /\ last = Idle
  /\ activated
  /\ LET c == Classify(r)
     IN  CASE c = "Skip" -> Skip(r)
           [] c = "Navigate" -> NavigateStrategy(r)
           [] c = "StaticAsset" -> StaticAssetStrategy(r)
           [] OTHER -> ApiDataStrategy(r)
  /\ UNCHANGED <<cacheNames, entries, sweepPc, sweepKeys, sweepLeft, activated>>

(***************************************************************************)
(* The background operations: caches.open(name).then(cache => cache.put),  *)
(* and the refresh fetch of a cached static asset.                         *)
(***************************************************************************)
PutDone(p) ==
  /\ last = Idle
  /\ p \in pending
  /\ p.kind = "put"
  /\ cacheNames' = Open(cacheNames, p.cache)
  /\ entries' = [entries EXCEPT ![p.cache][p.key] = p.resp]
  /\ pending' = pending \ {p}
  /\ UNCHANGED <<sweepPc, sweepKeys, sweepLeft, activated, last>>

RefreshDone(p, o) ==
  /\ last = Idle
  /\ p \in pending
  /\ p.kind = "refresh"
  /\ pending' = IF o.ok
                THEN (pending \ {p}) \cup {PutOp(StrategyCache, p.key, NetResponse(p.key, o.body, o.status))}
                ELSE pending \ {p}
  /\ UNCHANGED <<cacheNames, entries, sweepPc, sweepKeys, sweepLeft, activated, last>>

(***************************************************************************)
(* periodicsync 'update-check': checkForUpdates.                           *)
(***************************************************************************)
\* the number of notifications one check shows
NotifyWithoutSnapshot(status, cachedResponse, freshText) ==
  IF status = 200 /\ (cachedResponse = NoEntry \/ cachedResponse.body # freshText) THEN 1 ELSE 0

NotifyOncePerVersion(status, cachedResponse, freshText) ==
  IF status = 200 /\ cachedResponse # NoEntry /\ cachedResponse.body # freshText
     /\ ~(last.op = "check" /\ last.shown = 1)
  THEN 1 ELSE 0

Notify(status, cachedResponse, freshText) ==
  IF status = 200
  THEN IF cachedResponse = NoEntry THEN 0
       ELSE IF cachedResponse.body # freshText THEN 1 ELSE 0
  ELSE 0

checkForUpdatesStoringFresh(o) ==
  LET shown == IF o.ok
               THEN Notify(o.status, CacheMatch(entries, STATIC_CACHE, IndexUrl), o.body)
               ELSE 0
  IN  /\ ReadyFor("check")
      /\ activated
      /\ cacheNames' = Open(cacheNames, STATIC_CACHE)
      /\ entries' = IF shown = 1
                    THEN [entries EXCEPT ![STATIC_CACHE][IndexUrl] = NetResponse(IndexUrl, o.body, o.status)]
                    ELSE entries
      /\ last' = IF o.ok
                 THEN InRow(Outcome("check", NoRequest, "", "ok", o.status = 200, FALSE,
                                    NetResponse(IndexUrl, o.body, o.status), shown))
                 ELSE InRow(Outcome("check", NoRequest, "", "fail", FALSE, FALSE, NoResponse, 0))
      /\ UNCHANGED <<pending, sweepPc, sweepKeys, sweepLeft, activated>>

checkForUpdates(o) ==
  LET shown == IF o.ok
               THEN Notify(o.status, CacheMatch(entries, STATIC_CACHE, IndexUrl), o.body)
               ELSE 0
  IN  /\ ReadyFor("check")
      /\ activated
      /\ cacheNames' = Open(cacheNames, STATIC_CACHE)
      /\ last' = IF o.ok
                 THEN InRow(Outcome("check", NoRequest, "", "ok", o.status = 200, FALSE,
                                    NetResponse(IndexUrl, o.body, o.status), shown))
                 ELSE InRow(Outcome("check", NoRequest, "", "fail", FALSE, FALSE, NoResponse, 0))
      /\ UNCHANGED <<entries, pending, sweepPc, sweepKeys, sweepLeft, activated>>

(***************************************************************************)
(* message: SKIP_WAITING and CACHE_DATA.                                   *)
(***************************************************************************)
MessageEventAnyType(m) ==
  /\ last = Idle
  /\ Installed
  /\ IF m.hasData
     THEN Spawn(PutOp(DYNAMIC_CACHE, CalculationDataUrl, DataResponse(m.payload)))
     ELSE UNCHANGED pending
  /\ last' = Outcome("message", NoRequest, m.type, "none", FALSE, FALSE, NoResponse, 0)
  /\ UNCHANGED <<cacheNames, entries, sweepPc, sweepKeys, sweepLeft, activated>>

MessageEvent(m) ==
  /\ last = Idle
  /\ Installed
  /\ IF m.hasData /\ m.type = "CACHE_DATA"
     THEN Spawn(PutOp(DYNAMIC_CACHE, CalculationDataUrl, DataResponse(m.payload)))
     ELSE UNCHANGED pending
  /\ last' = Outcome("message", NoRequest, m.type, "none", FALSE, FALSE, NoResponse, 0)
  /\ UNCHANGED <<cacheNames, entries, sweepPc, sweepKeys, sweepLeft, activated>>

Next ==
  \/ TakeOutcome
  \/ \E o \in NetOutcomes : Install(o)
  \/ ActivateKeys
  \/ \E n \in AllNames : ActivateDelete(n)
  \/ ActivateClaim
  \/ \E r \in Requests : FetchEvent(r)
  \/ \E p \in pending : PutDone(p)
  \/ \E p \in pending : \E o \in NetOutcomesFor(p.key) : RefreshDone(p, o)
  \/ \E o \in NetOutcomes : checkForUpdates(o)
  \/ \E m \in Messages : MessageEvent(m)

Spec == Init /\ [][Next]_vars

(***************************************************************************)
(* The event loop runs every job it has queued: the host takes a settled   *)
(* outcome, and a store of a static asset that was started completes,      *)
(* although the handler that started it waits for nothing.                 *)
(***************************************************************************)
AssetStores ==
  {PutOp(StrategyCache, LogoUrl, NetResponse(LogoUrl, o.body, o.status)) : o \in NetOutcomes \ {NetFail}}

FairSpec ==
  /\ Spec
  /\ WF_vars(TakeOutcome)
  /\ \A p \in AssetStores : SF_vars(PutDone(p))

(***************************************************************************)
(* The pages never navigate to a URL the worker stores: the behaviours of  *)
(* Spec in which every fetch event is the request of a subresource, so     *)
(* that the entries of the static assets are written by the static-asset   *)
(* strategy and by install alone.                                          *)
(***************************************************************************)
SubresourceRequests == {r \in Requests : r.mode # "navigate"}

NextSubresources ==
  \/ TakeOutcome
  \/ \E o \in NetOutcomes : Install(o)
  \/ ActivateKeys
  \/ \E n \in AllNames : ActivateDelete(n)
  \/ ActivateClaim
  \/ \E r \in SubresourceRequests : FetchEvent(r)
  \/ \E p \in pending : PutDone(p)
  \/ \E p \in pending : \E o \in NetOutcomesFor(p.key) : RefreshDone(p, o)
  \/ \E o \in NetOutcomes : checkForUpdates(o)
  \/ \E m \in Messages : MessageEvent(m)

SpecSubresources == Init /\ [][NextSubresources]_vars

(***************************************************************************)
(* The worker replaces an earlier version that had stored the shell        *)
(* document: the behaviours of Spec that start with a partition of the     *)
(* earlier version, which holds /index.html.                               *)
(***************************************************************************)
InitShellStored == Init /\ Len(cacheNames) >= 1

SpecShellStored == InitShellStored /\ [][Next]_vars


(***************************************************************************)
(* Helpers of the properties.                                              *)
(***************************************************************************)
\* the step is the fetch handler handling a request
FetchStep == last = Idle /\ last'.op = "fetch"

\* the step is the install handler
InstallStep == last = Idle /\ last'.op = "install"

\* no partition holds a snapshot of /index.html
NoSnapshot == \A n \in AllNames : entries[n][IndexUrl] = NoEntry

\* the image file extensions of the placeholder property
PlaceholderExtensions == {".png", ".jpg", ".jpeg", ".gif", ".ico", ".svg"}

\* the retain list of the sweep properties
RetainList == {"static-cache-v1", "dynamic-cache-v1"}

\* the six classification rules, each with the rules before it excluded
RuleSkip(r) ==
  \/ r.method # "GET"
  \/ StartsWith(r.url, "chrome-extension://")
  \/ Includes(r.url, "analytics") \/ Includes(r.url, "telemetry")

RuleClass(r) ==
  CHOOSE c \in {"Skip", "Navigate", "StaticAsset", "ApiData"} :
    /\ c = "Skip" <=> RuleSkip(r)
    /\ c = "Navigate" <=> (~RuleSkip(r) /\ r.mode = "navigate")
    /\ c = "StaticAsset" <=> (~RuleSkip(r) /\ r.mode # "navigate" /\ IsStaticAssetUrl(r.url))
    /\ c = "ApiData" <=> (~RuleSkip(r) /\ r.mode # "navigate" /\ ~IsStaticAssetUrl(r.url))

(***************************************************************************)
(* C1: for a request whose method is not GET the fetch handler calls       *)
(* respondWith never, issues no fetch, consults no cache, and leaves the   *)
(* partitions and the operations in flight as they were.                   *)
(***************************************************************************)
C1_NonGetPassesThrough ==
  [][(FetchStep /\ last'.req.method # "GET")
       => /\ ~last'.responded
          /\ last'.result = NoResponse
          /\ last'.net = "none"
          /\ ~last'.cacheOps
          /\ UNCHANGED <<cacheNames, entries, pending>>]_vars

C1_Witness ==
  /\ last.op = "fetch"
  /\ last.req.method = "POST"
  /\ ~last.responded

(***************************************************************************)
(* C2, as claimed: every GET request with an image extension whose fetch   *)
(* fails while no partition holds it gets the placeholder image, whatever  *)
(* its mode and URL substrings.                                            *)
(***************************************************************************)
C2_AnyImageRequestGetsPlaceholder ==
  (/\ last.op = "fetch"
   /\ last.req.method = "GET"
   /\ EndsWithOneOf(last.req.url, PlaceholderExtensions)
   /\ last.net = "fail"
   /\ Match(cacheNames, entries, last.req.url) = NoEntry)
    => last.result = PlaceholderImage

(***************************************************************************)
(* C2, amended: a GET request with an image extension that is no           *)
(* navigation, no chrome-extension URL and carries no analytics or         *)
(* telemetry marker gets the placeholder image, of type image/svg+xml,     *)
(* when its fetch fails while no partition holds it.                       *)
(***************************************************************************)
C2_StaticImageRequestGetsPlaceholder ==
  (/\ last.op = "fetch"
   /\ last.req.method = "GET"
   /\ EndsWithOneOf(last.req.url, PlaceholderExtensions)
   /\ last.req.mode # "navigate"
   /\ ~StartsWith(last.req.url, "chrome-extension://")
   /\ ~Includes(last.req.url, "analytics")
   /\ ~Includes(last.req.url, "telemetry")
   /\ last.net = "fail"
   /\ Match(cacheNames, entries, last.req.url) = NoEntry)
    => /\ last.responded
       /\ last.result = PlaceholderImage
       /\ last.result.ctype = "image/svg+xml"

C2_Witness ==
  /\ last.op = "fetch"
  /\ last.req = Request("GET", LogoUrl, "no-cors")
  /\ last.net = "fail"
  /\ last.result = PlaceholderImage

(***************************************************************************)
(* C3, as claimed: a navigation of K whose fetch fails, the stores of the  *)
(* earlier navigations of K having completed, returns the document the     *)
(* dynamic partition holds for K, the one stored last.                     *)
(***************************************************************************)
C3_OfflineNavigationReturnsLastStored ==
  (/\ last.op = "fetch"
   /\ last.branch = "Navigate"
   /\ last.net = "fail"
   /\ entries[DYNAMIC_CACHE][last.req.url] # NoEntry
   /\ \A p \in pending : p.key # last.req.url)
    => last.result = entries[DYNAMIC_CACHE][last.req.url]

(***************************************************************************)
(* C4, as claimed: when a static-asset request missed the cache and its    *)
(* fetch answered R, a lookup of the request right after the handler has   *)
(* returned R finds R.                                                     *)
(***************************************************************************)
C4_StoredAssetReadBackAtOnce ==
  (/\ last.op = "fetch"
   /\ last.branch = "StaticAsset"
   /\ last.net = "ok")
    => Match(cacheNames, entries, last.req.url) = last.result

(***************************************************************************)
(* C5: a check that finds no snapshot of /index.html in any partition      *)
(* shows no notification, whatever the fresh fetch returned.               *)
(***************************************************************************)
C5_NoSnapshotNoNotification ==
  (last.op = "check" /\ NoSnapshot) => last.shown = 0

C5_Witness ==
  /\ last.op = "check"
  /\ last.net = "ok"
  /\ last.result.status = 200
  /\ NoSnapshot
  /\ last.shown = 0

(***************************************************************************)
(* C6, as claimed: a check whose fresh text differs from the text of the   *)
(* cached snapshot shows exactly one notification.                         *)
(***************************************************************************)
C6_DifferentTextNotifies ==
  (/\ last.op = "check"
   /\ last.net = "ok"
   /\ entries[STATIC_CACHE][IndexUrl] # NoEntry
   /\ entries[STATIC_CACHE][IndexUrl].body # last.result.body)
    => last.shown = 1

(***************************************************************************)
(* C6, amended: a check whose fresh fetch has status 200 and whose fresh   *)
(* text differs from the text of the snapshot in the static partition      *)
(* shows exactly one notification, and so does every check that follows    *)
(* it with the same snapshot and the same fresh text.                      *)
(***************************************************************************)
C6_DifferentTextOf200Notifies ==
  (/\ last.op = "check"
   /\ last.net = "ok"
   /\ last.result.status = 200
   /\ entries[STATIC_CACHE][IndexUrl] # NoEntry
   /\ entries[STATIC_CACHE][IndexUrl].body # last.result.body)
    => last.shown = 1

C6_Witness ==
  /\ last.op = "check"
  /\ last.shown = 1
  /\ last.row = 2
  /\ entries[STATIC_CACHE][IndexUrl].body = "A"
  /\ last.result.body = "B"

(***************************************************************************)
(* C7: when the deletes of the sweep have all completed, and no other      *)
(* handler has opened a partition since the sweep listed the names, the    *)
(* partitions are exactly the listed ones that are on the retain list.     *)
(***************************************************************************)
C7_SweepLeavesRetainedOnly ==
  (/\ sweepPc = "deleting"
   /\ sweepLeft = {}
   /\ Range(cacheNames) \subseteq Range(sweepKeys))
    => Range(cacheNames) = Range(sweepKeys) \cap RetainList

C7_Witness ==
  /\ sweepPc = "deleting"
  /\ sweepLeft = {}
  /\ Range(sweepKeys) = {"old-cache-v0", "static-cache-v1", "dynamic-cache-v1"}
  /\ Range(cacheNames) = {"static-cache-v1", "dynamic-cache-v1"}

(***************************************************************************)
(* C8: a sweep that follows a sweep at once changes neither the set of     *)
(* partitions nor any entry: two sweeps in a row leave what one leaves.    *)
(***************************************************************************)
C8_SecondSweepChangesNothing ==
  [][last.op = "activate" => UNCHANGED <<cacheNames, entries>>]_vars

C8_Witness ==
  /\ last.op = "activate"
  /\ last.row = 2
  /\ sweepPc = "idle"

(***************************************************************************)
(* C9: the strategy the handler runs for a request is the classification   *)
(* the six rules give it, in their order of priority, and respondWith is   *)
(* called exactly when that classification is not Skip.                    *)
(***************************************************************************)
C9_ClassificationByPriority ==
  last.op = "fetch"
    => /\ last.branch = RuleClass(last.req)
       /\ last.responded <=> RuleClass(last.req) # "Skip"

C9_Witness ==
  /\ last.op = "fetch"
  /\ last.req = Request("GET", LogoUrl, "navigate")
  /\ last.branch = "Navigate"

(***************************************************************************)
(* C10: only the install step changes the entries of the static partition; *)
(* every other change of a partition's entries is a store into the dynamic *)
(* partition or the deletion, by the sweep, of a partition that is not     *)
(* retained.                                                               *)
(***************************************************************************)
C10_StrategiesWriteDynamicOnly ==
  [][/\ entries'[STATIC_CACHE] # entries[STATIC_CACHE] => InstallStep
     /\ \A n \in AllNames \ {STATIC_CACHE, DYNAMIC_CACHE} :
          entries'[n] # entries[n]
            => (sweepPc = "deleting" /\ n \notin Range(cacheNames') /\ entries'[n] = EmptyPartition)]_vars

C10_Witness ==
  /\ entries[STATIC_CACHE][IndexUrl] # NoEntry
  /\ entries[DYNAMIC_CACHE][IndexUrl].src = "network"
  /\ entries[DYNAMIC_CACHE][LogoUrl].src = "network"
  /\ entries[DYNAMIC_CACHE][CalculationDataUrl].src = "network"


(***************************************************************************)
(* C11, as claimed: once /index.html has been stored in a partition, every *)
(* navigation the handler completes is answered with a response (the live  *)
(* one, a cached entry or the shell document), never with undefined or a   *)
(* failure.  Stated over the behaviours that start with the shell document *)
(* stored by the earlier version.                                          *)
(***************************************************************************)
C11_NavigationAlwaysAnswered ==
  (last.op = "fetch" /\ last.branch = "Navigate")
    => /\ last.responded
       /\ last.result \notin {NoEntry, NoResponse, Rejected}


(***************************************************************************)
(* C12: an ApiData request whose fetch answers is given the live response, *)
(* and a store of that response into the dynamic partition is started if   *)
(* and only if its status is 200; when the fetch fails the result is the   *)
(* entry a lookup over all the partitions finds, and undefined when no     *)
(* partition holds the request.  The handler itself changes no partition.  *)
(***************************************************************************)
C12_ApiDataStoresOnly200 ==
  [][(FetchStep /\ last'.branch = "ApiData")
       => LET url == last'.req.url
              stored == [kind |-> "put", cache |-> "dynamic-cache-v1", key |-> url, resp |-> last'.result]
          IN  /\ last'.responded
              /\ last'.net \in {"ok", "fail"}
              /\ last'.net = "ok"
                   => /\ last'.result.src = "network"
                      /\ last'.result.url = url
                      /\ last'.result.status = 200 <=> stored \in pending'
                      /\ last'.result.status # 200 => pending' = pending
              /\ last'.net = "fail"
                   => /\ last'.result = Match(cacheNames, entries, url)
                      /\ (\A n \in AllNames : entries[n][url] = NoEntry) => last'.result = NoEntry
                      /\ pending' = pending
              /\ UNCHANGED <<cacheNames, entries>>]_vars

C12_Witness ==
  /\ last.op = "fetch"
  /\ last.branch = "ApiData"
  /\ last.net = "ok"
  /\ last.result.status = 404
  /\ entries[DYNAMIC_CACHE][CalculationDataUrl].status = 200
  /\ pending = {}


(***************************************************************************)
(* C13: a static-asset request that hits the cache is answered with the    *)
(* cached response while its refresh is still in flight; a refresh that    *)
(* settles changes no partition and no outcome by itself, a failed one     *)
(* starts nothing and a successful one starts only the store of the        *)
(* network's response for the key into the dynamic partition; and a store  *)
(* started for a static asset is eventually held by the dynamic partition  *)
(* under the request's key.                                                *)
(***************************************************************************)
RefreshedStores ==
  {[kind |-> "put", cache |-> "dynamic-cache-v1", key |-> LogoUrl,
    resp |-> NetResponse(LogoUrl, o.body, o.status)] : o \in NetOutcomes \ {NetFail}}

C13_HitAnsweredBeforeRefresh ==
  /\ []((last.op = "fetch" /\ last.branch = "StaticAsset" /\ last.net = "background")
          => /\ last.responded
             /\ last.result # NoEntry
             /\ last.result = Match(cacheNames, entries, last.req.url)
             /\ RefreshOp(last.req.url) \in pending)
  /\ [][\A p \in pending :
          (p.kind = "refresh" /\ p \notin pending')
            => /\ UNCHANGED <<cacheNames, entries, last>>
               /\ \/ pending' = pending \ {p}
                  \/ \E q \in RefreshedStores : q.key = p.key /\ pending' = (pending \ {p}) \cup {q}]_vars
  /\ \A q \in RefreshedStores : (q \in pending) ~> (entries["dynamic-cache-v1"][q.key] = q.resp)

C13_Witness ==
  /\ last.op = "fetch"
  /\ last.branch = "StaticAsset"
  /\ last.net = "background"
  /\ last.result = entries[STATIC_CACHE][LogoUrl]
  /\ entries[DYNAMIC_CACHE][LogoUrl] # NoEntry
  /\ entries[DYNAMIC_CACHE][LogoUrl] # last.result
  /\ RefreshOp(LogoUrl) \in pending


(***************************************************************************)
(* C14: an update check, whatever its outcome (nothing new, a new version  *)
(* notified, the fetch failed), leaves the entries of every partition as   *)
(* they were and starts no store.                                          *)
(***************************************************************************)
C14_CheckOverwritesNothing ==
  [][(last'.op = "check" /\ last' # last)
       => /\ entries' = entries
          /\ pending' = pending]_vars

C14_Witness ==
  /\ last.op = "check"
  /\ last.net = "ok"
  /\ last.shown = 1
  /\ entries[STATIC_CACHE][IndexUrl].body = "B"
  /\ last.result.body = "A"
  /\ last.row = 1


(***************************************************************************)
(* C15, as claimed: once a CACHE_DATA payload is held by the dynamic       *)
(* partition under /api/calculation-data, a request of the application for *)
(* that key retrieves it.                                                  *)
(***************************************************************************)
C15_LookupRetrievesPayload ==
  (/\ last.op = "fetch"
   /\ last.req = Request("GET", CalculationDataUrl, "no-cors")
   /\ entries[DYNAMIC_CACHE][CalculationDataUrl].src = "message")
    => last.result = entries[DYNAMIC_CACHE][CalculationDataUrl]

(***************************************************************************)
(* C15, amended: a CACHE_DATA message with payload P starts the store of   *)
(* the JSON text of P into the dynamic partition under                     *)
(* /api/calculation-data and changes no partition by itself; a message of  *)
(* another type or without data starts nothing; the store, when it         *)
(* completes, replaces the entry of that key; and a request for the key    *)
(* whose fetch fails while the dynamic partition holds a stored payload is *)
(* answered with that entry, the JSON text of the payload.                 *)
(***************************************************************************)
C15_PayloadStoredAndServedOffline ==
  /\ [][\A m \in Messages :
          MessageEvent(m)
            => /\ UNCHANGED <<cacheNames, entries>>
               /\ IF m.hasData /\ m.type = "CACHE_DATA"
                  THEN pending' = pending \cup
                         {[kind |-> "put", cache |-> "dynamic-cache-v1", key |-> CalculationDataUrl,
                           resp |-> [src |-> "message", url |-> <<>>, body |-> JSONstringify(m.payload),
                                     status |-> 200, ctype |-> "text/plain"]]}
                  ELSE pending' = pending]_vars
  /\ [][\A p \in pending :
          (p.kind = "put" /\ p \notin pending' /\ p.resp.src = "message")
            => /\ p.key = CalculationDataUrl
               /\ entries'["dynamic-cache-v1"][CalculationDataUrl] = p.resp
               /\ "dynamic-cache-v1" \in Range(cacheNames')]_vars
  /\ []((/\ last.op = "fetch"
         /\ last.req = Request("GET", CalculationDataUrl, "no-cors")
         /\ last.net = "fail"
         /\ entries[DYNAMIC_CACHE][CalculationDataUrl].src = "message")
          => /\ last.result = entries[DYNAMIC_CACHE][CalculationDataUrl]
             /\ \E d \in Payloads : last.result.body = JSONstringify(d))

C15_Witness ==
  /\ last.op = "fetch"
  /\ last.req = Request("GET", CalculationDataUrl, "no-cors")
  /\ last.net = "fail"
  /\ last.result = DataResponse("p2")


(***************************************************************************)
(* C16, as claimed: once the store of a refresh of a static asset has      *)
(* completed, so that the dynamic partition holds the refreshed response R *)
(* for the key and no store for the key is in flight, the next             *)
(* static-asset request for the key is answered with R; this for the       *)
(* assets stored at install too.  Stated over the behaviours in which only *)
(* the static-asset strategy stores a static asset.                        *)
(***************************************************************************)
C16_RefreshedAssetServedNext ==
  (/\ last.op = "fetch"
   /\ last.branch = "StaticAsset"
   /\ entries[DYNAMIC_CACHE][last.req.url] # NoEntry
   /\ \A p \in pending : ~(p.kind = "put" /\ p.key = last.req.url))
    => last.result = entries[DYNAMIC_CACHE][last.req.url]


(***************************************************************************)
(* C17: however the steps of the sweep interleave with the other handlers  *)
(* and the stores in flight, a step of the sweep removes no retained       *)
(* partition and changes none of its entries, and a store that completes   *)
(* on a retained partition, during a sweep or not, leaves its response     *)
(* under its key in that partition, where the steps of the sweep keep it.  *)
(***************************************************************************)
C17_SweepSafeWithStores ==
  [][/\ (sweepPc' # sweepPc \/ sweepLeft' # sweepLeft)
          => \A n \in RetainList :
               /\ entries'[n] = entries[n]
               /\ n \in Range(cacheNames) => n \in Range(cacheNames')
     /\ \A p \in pending :
          (p.kind = "put" /\ p \notin pending' /\ p.cache \in RetainList)
            => /\ p.cache \in Range(cacheNames')
               /\ entries'[p.cache][p.key] = p.resp]_vars

C17_Witness ==
  /\ sweepPc = "deleting"
  /\ sweepLeft = {}
  /\ "old-cache-v0" \in Range(sweepKeys) \ Range(cacheNames)
  /\ "dynamic-cache-v1" \in Range(cacheNames) \ Range(sweepKeys)
  /\ entries[DYNAMIC_CACHE][CalculationDataUrl].src = "message"
  /\ entries[STATIC_CACHE][IndexUrl] # NoEntry


(***************************************************************************)
(* C18: every entry of the dynamic partition, and every response a store   *)
(* in flight carries, is a response the network returned for the entry's   *)
(* key or a CACHE_DATA payload under /api/calculation-data: never the      *)
(* generated placeholder image, never the shell document under the key of  *)
(* another request.                                                        *)
(***************************************************************************)
FromNetworkOrMessage(key, resp) ==
  \/ resp.src = "network" /\ resp.url = key
  \/ resp.src = "message" /\ key = CalculationDataUrl

C18_OnlyNetworkAndPayloadStored ==
  /\ \A k \in Keys :
       entries["dynamic-cache-v1"][k] # NoEntry
         => FromNetworkOrMessage(k, entries["dynamic-cache-v1"][k])
  /\ \A p \in pending : p.kind = "put" => FromNetworkOrMessage(p.key, p.resp)

C18_Witness ==
  /\ last.op = "fetch"
  /\ last.result = PlaceholderImage
  /\ pending = {}
  /\ entries[DYNAMIC_CACHE][LogoUrl] = NoEntry
  /\ entries[DYNAMIC_CACHE][IndexUrl].src = "network"
  /\ entries[DYNAMIC_CACHE][CalculationDataUrl].src = "message"


(***************************************************************************)
(* C19: a navigation or a static-asset request whose fetch answers starts  *)
(* the store of the answer into the dynamic partition whatever its status, *)
(* while an ApiData request starts none for a status other than 200; and   *)
(* the store of an answer whose status is not 200, when it completes,      *)
(* makes that answer the entry of the dynamic partition for the request.   *)
(***************************************************************************)
C19_NavigationStoresAnyStatus ==
  /\ [][(FetchStep /\ last'.net = "ok")
          => LET stored == [kind |-> "put", cache |-> "dynamic-cache-v1",
                            key |-> last'.req.url, resp |-> last'.result]
             IN  /\ last'.result.src = "network"
                 /\ last'.branch \in {"Navigate", "StaticAsset"} => stored \in pending'
                 /\ (last'.branch = "ApiData" /\ last'.result.status # 200) => stored \notin pending']_vars
  /\ [][\A p \in pending :
          (p.kind = "put" /\ p \notin pending' /\ p.resp.status # 200)
            => /\ p.resp.src = "network"
               /\ entries'["dynamic-cache-v1"][p.key] = p.resp]_vars

C19_Witness ==
  /\ last.op = "fetch"
  /\ last.branch = "Navigate"
  /\ last.net = "fail"
  /\ last.result.status = 404
  /\ last.result = entries[DYNAMIC_CACHE][last.req.url]


(***************************************************************************)
(* C20: an update check shows a notification exactly when its fetch        *)
(* answered with status 200, the static partition holds a snapshot of      *)
(* /index.html, and the fresh text differs from the snapshot's; a copy     *)
(* of /index.html in the dynamic partition plays no part, so that with a   *)
(* copy there alone the check shows nothing.                               *)
(***************************************************************************)
C20_CheckReadsStaticSnapshotOnly ==
  last.op = "check"
    => /\ last.shown \in {0, 1}
       /\ last.shown = 1
            <=> /\ last.net = "ok"
                /\ last.result.status = 200
                /\ entries["static-cache-v1"][IndexUrl] # NoEntry
                /\ entries["static-cache-v1"][IndexUrl].body # last.result.body

C20_Witness ==
  /\ last.op = "check"
  /\ last.net = "ok"
  /\ last.result.status = 200
  /\ entries[STATIC_CACHE][IndexUrl] = NoEntry
  /\ entries[DYNAMIC_CACHE][IndexUrl] # NoEntry
  /\ entries[DYNAMIC_CACHE][IndexUrl].body # last.result.body
  /\ last.shown = 0

====
